---- MODULE Spec2Model ----
(***************************************************************************)
(* Model of the morsify crate (src/src/lib.rs): the MorseCode instance     *)
(* (options + cached character tables), its constructor and its two        *)
(* operations encode and decode, with the table builder get_characters,    *)
(* the renderer get_mapped_characters and the reverse index                *)
(* swap_characters.                                                        *)
(*                                                                         *)
(* Representation.  A Rust `char` is its Unicode scalar value (an          *)
(* integer: 'A' = 65, ' ' = 32, '0' = 48, '1' = 49).  A `String`/`&str` is *)
(* a sequence of chars.  A BTreeMap<K, V> is a function whose DOMAIN is    *)
(* the key set; its iteration order is the ascending order of the keys     *)
(* (chars by scalar value, MorseCharacterSet by declaration order).        *)
(* Options.invalid_char_callback is a `fn(char) -> char`; the model draws  *)
(* it from a small set of named functions (see call_invalid_char_callback).*)
(***************************************************************************)
EXTENDS Integers, Sequences, FiniteSets, TLC

VARIABLES
    options,     \* MorseCode.options of the instance in use
    characters,  \* MorseCode.characters, the table set cached by new()
    op,          \* the last call: "new", "encode" or "decode"
    input,       \* the argument of the last encode/decode call
    output,      \* the String it returned
    source       \* <<text>> when the last call decoded encode(text);
                 \* <<encode(text), text>> when it encoded the result of
                 \* that decode; else <<>>

vars == <<options, characters, op, input, output, source>>

----------------------------------------------------------------------------
(* enum MorseCharacterSet, #[repr(usize)], derive(Ord): declaration order. *)
Undefined == 0
Latin == 1
Numbers == 2
Punctuation == 3
LatinExtended == 4
Cyrillic == 5
Greek == 6
Hebrew == 7
Arabic == 8
Persian == 9
Japanese == 10
Korean == 11
Thai == 12

MorseCharacterSet == Undefined .. Thai

----------------------------------------------------------------------------
(* The per-script tables, entry for entry as the source inserts them.      *)

\* latin_chars(): 26 entries, char (Unicode scalar value) -> pattern over '0' (48), '1' (49).
latin_chars ==
    (65 :> <<48, 49>>) @@                           \* 'A' "01"
    (66 :> <<49, 48, 48, 48>>) @@                   \* 'B' "1000"
    (67 :> <<49, 48, 49, 48>>) @@                   \* 'C' "1010"
    (68 :> <<49, 48, 48>>) @@                       \* 'D' "100"
    (69 :> <<48>>) @@                               \* 'E' "0"
    (70 :> <<48, 48, 49, 48>>) @@                   \* 'F' "0010"
    (71 :> <<49, 49, 48>>) @@                       \* 'G' "110"
    (72 :> <<48, 48, 48, 48>>) @@                   \* 'H' "0000"
    (73 :> <<48, 48>>) @@                           \* 'I' "00"
    (74 :> <<48, 49, 49, 49>>) @@                   \* 'J' "0111"
    (75 :> <<49, 48, 49>>) @@                       \* 'K' "101"
    (76 :> <<48, 49, 48, 48>>) @@                   \* 'L' "0100"
    (77 :> <<49, 49>>) @@                           \* 'M' "11"
    (78 :> <<49, 48>>) @@                           \* 'N' "10"
    (79 :> <<49, 49, 49>>) @@                       \* 'O' "111"
    (80 :> <<48, 49, 49, 48>>) @@                   \* 'P' "0110"
    (81 :> <<49, 49, 48, 49>>) @@                   \* 'Q' "1101"
    (82 :> <<48, 49, 48>>) @@                       \* 'R' "010"
    (83 :> <<48, 48, 48>>) @@                       \* 'S' "000"
    (84 :> <<49>>) @@                               \* 'T' "1"
    (85 :> <<48, 48, 49>>) @@                       \* 'U' "001"
    (86 :> <<48, 48, 48, 49>>) @@                   \* 'V' "0001"
    (87 :> <<48, 49, 49>>) @@                       \* 'W' "011"
    (88 :> <<49, 48, 48, 49>>) @@                   \* 'X' "1001"
    (89 :> <<49, 48, 49, 49>>) @@                   \* 'Y' "1011"
    (90 :> <<49, 49, 48, 48>>)                      \* 'Z' "1100"

\* numbers_chars(): 10 entries, char (Unicode scalar value) -> pattern over '0' (48), '1' (49).
numbers_chars ==
    (48 :> <<49, 49, 49, 49, 49>>) @@               \* '0' "11111"
    (49 :> <<48, 49, 49, 49, 49>>) @@               \* '1' "01111"
    (50 :> <<48, 48, 49, 49, 49>>) @@               \* '2' "00111"
    (51 :> <<48, 48, 48, 49, 49>>) @@               \* '3' "00011"
    (52 :> <<48, 48, 48, 48, 49>>) @@               \* '4' "00001"
    (53 :> <<48, 48, 48, 48, 48>>) @@               \* '5' "00000"
    (54 :> <<49, 48, 48, 48, 48>>) @@               \* '6' "10000"
    (55 :> <<49, 49, 48, 48, 48>>) @@               \* '7' "11000"
    (56 :> <<49, 49, 49, 48, 48>>) @@               \* '8' "11100"
    (57 :> <<49, 49, 49, 49, 48>>)                  \* '9' "11110"

\* punctuation_chars(): 20 entries, char (Unicode scalar value) -> pattern over '0' (48), '1' (49).
punctuation_chars ==
    (46 :> <<48, 49, 48, 49, 48, 49>>) @@           \* '.' "010101"
    (44 :> <<49, 49, 48, 48, 49, 49>>) @@           \* ',' "110011"
    (63 :> <<48, 48, 49, 49, 48, 48>>) @@           \* '?' "001100"
    (39 :> <<48, 49, 49, 49, 49, 48>>) @@           \* ''' "011110"
    (33 :> <<49, 48, 49, 48, 49, 49>>) @@           \* '!' "101011"
    (47 :> <<49, 48, 48, 49, 48>>) @@               \* '/' "10010"
    (40 :> <<49, 48, 49, 49, 48>>) @@               \* '(' "10110"
    (41 :> <<49, 48, 49, 49, 48, 49>>) @@           \* ')' "101101"
    (38 :> <<48, 49, 48, 48, 48>>) @@               \* '&' "01000"
    (58 :> <<49, 49, 49, 48, 48, 48>>) @@           \* ':' "111000"
    (59 :> <<49, 48, 49, 48, 49, 48>>) @@           \* ';' "101010"
    (61 :> <<49, 48, 48, 48, 49>>) @@               \* '=' "10001"
    (43 :> <<48, 49, 48, 49, 48>>) @@               \* '+' "01010"
    (45 :> <<49, 48, 48, 48, 48, 49>>) @@           \* '-' "100001"
    (95 :> <<48, 48, 49, 49, 48, 49>>) @@           \* '_' "001101"
    (34 :> <<48, 49, 48, 48, 49, 48>>) @@           \* '"' "010010"
    (36 :> <<48, 48, 48, 49, 48, 48, 49>>) @@       \* '$' "0001001"
    (64 :> <<48, 49, 49, 48, 49, 48>>) @@           \* '@' "011010"
    (191 :> <<48, 48, 49, 48, 49>>) @@              \* U+00BF "00101"
    (161 :> <<49, 49, 48, 48, 48, 49>>)             \* U+00A1 "110001"

\* latin_extended_chars(): 46 entries, char (Unicode scalar value) -> pattern over '0' (48), '1' (49).
latin_extended_chars ==
    (195 :> <<48, 49, 49, 48, 49>>) @@              \* U+00C3 "01101"
    (193 :> <<48, 49, 49, 48, 49>>) @@              \* U+00C1 "01101"
    (197 :> <<48, 49, 49, 48, 49>>) @@              \* U+00C5 "01101"
    (192 :> <<48, 49, 49, 48, 49>>) @@              \* U+00C0 "01101"
    (194 :> <<48, 49, 49, 48, 49>>) @@              \* U+00C2 "01101"
    (196 :> <<48, 49, 48, 49>>) @@                  \* U+00C4 "0101"
    (260 :> <<48, 49, 48, 49>>) @@                  \* U+0104 "0101"
    (198 :> <<48, 49, 48, 49>>) @@                  \* U+00C6 "0101"
    (199 :> <<49, 48, 49, 48, 48>>) @@              \* U+00C7 "10100"
    (262 :> <<49, 48, 49, 48, 48>>) @@              \* U+0106 "10100"
    (264 :> <<49, 48, 49, 48, 48>>) @@              \* U+0108 "10100"
    (268 :> <<49, 49, 48>>) @@                      \* U+010C "110"
    (208 :> <<48, 48, 49, 49, 48>>) @@              \* U+00D0 "00110"
    (200 :> <<48, 49, 48, 48, 49>>) @@              \* U+00C8 "01001"
    (280 :> <<48, 48, 49, 48, 48>>) @@              \* U+0118 "00100"
    (203 :> <<48, 48, 49, 48, 48>>) @@              \* U+00CB "00100"
    (201 :> <<48, 48, 49, 48, 48>>) @@              \* U+00C9 "00100"
    (202 :> <<49, 48, 48, 49, 48>>) @@              \* U+00CA "10010"
    (286 :> <<49, 49, 48, 49, 48>>) @@              \* U+011E "11010"
    (284 :> <<49, 49, 48, 49, 48>>) @@              \* U+011C "11010"
    (292 :> <<49, 49, 49, 49>>) @@                  \* U+0124 "1111"
    (304 :> <<48, 49, 48, 48, 49>>) @@              \* U+0130 "01001"
    (207 :> <<49, 48, 48, 49, 49>>) @@              \* U+00CF "10011"
    (204 :> <<48, 49, 49, 49, 48>>) @@              \* U+00CC "01110"
    (308 :> <<48, 49, 49, 49, 48>>) @@              \* U+0134 "01110"
    (321 :> <<48, 49, 48, 48, 49>>) @@              \* U+0141 "01001"
    (323 :> <<49, 49, 48, 49, 49>>) @@              \* U+0143 "11011"
    (209 :> <<49, 49, 48, 49, 49>>) @@              \* U+00D1 "11011"
    (211 :> <<49, 49, 49, 48>>) @@                  \* U+00D3 "1110"
    (210 :> <<49, 49, 49, 48>>) @@                  \* U+00D2 "1110"
    (214 :> <<49, 49, 49, 48>>) @@                  \* U+00D6 "1110"
    (212 :> <<49, 49, 49, 48>>) @@                  \* U+00D4 "1110"
    (216 :> <<49, 49, 49, 48>>) @@                  \* U+00D8 "1110"
    (346 :> <<48, 48, 48, 49, 48, 48, 48>>) @@      \* U+015A "0001000"
    (350 :> <<48, 49, 49, 48, 48>>) @@              \* U+015E "01100"
    (536 :> <<49, 49, 49, 49>>) @@                  \* U+0218 "1111"
    (352 :> <<49, 49, 49, 49>>) @@                  \* U+0160 "1111"
    (348 :> <<48, 48, 48, 49, 48>>) @@              \* U+015C "00010"
    (223 :> <<48, 48, 48, 48, 48, 48>>) @@          \* U+00DF "000000"
    (222 :> <<48, 49, 49, 48, 48>>) @@              \* U+00DE "01100"
    (220 :> <<48, 48, 49, 49>>) @@                  \* U+00DC "0011"
    (217 :> <<48, 48, 49, 49>>) @@                  \* U+00D9 "0011"
    (364 :> <<48, 48, 49, 49>>) @@                  \* U+016C "0011"
    (381 :> <<49, 49, 48, 48, 49>>) @@              \* U+017D "11001"
    (377 :> <<49, 49, 48, 48, 49, 48>>) @@          \* U+0179 "110010"
    (379 :> <<49, 49, 48, 48, 49>>)                 \* U+017B "11001"

\* cyrillic_chars(): 36 entries, char (Unicode scalar value) -> pattern over '0' (48), '1' (49).
cyrillic_chars ==
    (1040 :> <<48, 49>>) @@                         \* U+0410 "01"
    (1041 :> <<49, 48, 48, 48>>) @@                 \* U+0411 "1000"
    (1042 :> <<48, 49, 49>>) @@                     \* U+0412 "011"
    (1043 :> <<49, 49, 48>>) @@                     \* U+0413 "110"
    (1044 :> <<49, 48, 48>>) @@                     \* U+0414 "100"
    (1045 :> <<48>>) @@                             \* U+0415 "0"
    (1046 :> <<48, 48, 48, 49>>) @@                 \* U+0416 "0001"
    (1047 :> <<49, 49, 48, 48>>) @@                 \* U+0417 "1100"
    (1048 :> <<48, 48>>) @@                         \* U+0418 "00"
    (1049 :> <<48, 49, 49, 49>>) @@                 \* U+0419 "0111"
    (1050 :> <<49, 48, 49>>) @@                     \* U+041A "101"
    (1051 :> <<48, 49, 48, 48>>) @@                 \* U+041B "0100"
    (1052 :> <<49, 49>>) @@                         \* U+041C "11"
    (1053 :> <<49, 48>>) @@                         \* U+041D "10"
    (1054 :> <<49, 49, 49>>) @@                     \* U+041E "111"
    (1055 :> <<48, 49, 49, 48>>) @@                 \* U+041F "0110"
    (1056 :> <<48, 49, 48>>) @@                     \* U+0420 "010"
    (1057 :> <<48, 48, 48>>) @@                     \* U+0421 "000"
    (1058 :> <<49>>) @@                             \* U+0422 "1"
    (1059 :> <<48, 48, 49>>) @@                     \* U+0423 "001"
    (1060 :> <<48, 48, 49, 48>>) @@                 \* U+0424 "0010"
    (1061 :> <<48, 48, 48, 48>>) @@                 \* U+0425 "0000"
    (1062 :> <<49, 48, 49, 48>>) @@                 \* U+0426 "1010"
    (1063 :> <<49, 49, 49, 48>>) @@                 \* U+0427 "1110"
    (1064 :> <<49, 49, 49, 49>>) @@                 \* U+0428 "1111"
    (1065 :> <<49, 49, 48, 49>>) @@                 \* U+0429 "1101"
    (1066 :> <<49, 49, 48, 49, 49>>) @@             \* U+042A "11011"
    (1067 :> <<49, 48, 49, 49>>) @@                 \* U+042B "1011"
    (1068 :> <<49, 48, 48, 49>>) @@                 \* U+042C "1001"
    (1069 :> <<48, 48, 49, 48, 48>>) @@             \* U+042D "00100"
    (1070 :> <<48, 48, 49, 49>>) @@                 \* U+042E "0011"
    (1071 :> <<48, 49, 48, 49>>) @@                 \* U+042F "0101"
    (1031 :> <<48, 49, 49, 49, 48>>) @@             \* U+0407 "01110"
    (1028 :> <<48, 48, 49, 48, 48>>) @@             \* U+0404 "00100"
    (1030 :> <<48, 48>>) @@                         \* U+0406 "00"
    (1168 :> <<49, 49, 48>>)                        \* U+0490 "110"

\* greek_chars(): 24 entries, char (Unicode scalar value) -> pattern over '0' (48), '1' (49).
greek_chars ==
    (913 :> <<48, 49>>) @@                          \* U+0391 "01"
    (914 :> <<49, 48, 48, 48>>) @@                  \* U+0392 "1000"
    (915 :> <<49, 49, 48>>) @@                      \* U+0393 "110"
    (916 :> <<49, 48, 48>>) @@                      \* U+0394 "100"
    (917 :> <<48>>) @@                              \* U+0395 "0"
    (918 :> <<49, 49, 48, 48>>) @@                  \* U+0396 "1100"
    (919 :> <<48, 48, 48, 48>>) @@                  \* U+0397 "0000"
    (920 :> <<49, 48, 49, 48>>) @@                  \* U+0398 "1010"
    (921 :> <<48, 48>>) @@                          \* U+0399 "00"
    (922 :> <<49, 48, 49>>) @@                      \* U+039A "101"
    (923 :> <<48, 49, 48, 48>>) @@                  \* U+039B "0100"
    (924 :> <<49, 49>>) @@                          \* U+039C "11"
    (925 :> <<49, 48>>) @@                          \* U+039D "10"
    (926 :> <<49, 48, 48, 49>>) @@                  \* U+039E "1001"
    (927 :> <<49, 49, 49>>) @@                      \* U+039F "111"
    (928 :> <<48, 49, 49, 48>>) @@                  \* U+03A0 "0110"
    (929 :> <<48, 49, 48>>) @@                      \* U+03A1 "010"
    (931 :> <<48, 48, 48>>) @@                      \* U+03A3 "000"
    (932 :> <<49>>) @@                              \* U+03A4 "1"
    (933 :> <<49, 48, 49, 49>>) @@                  \* U+03A5 "1011"
    (934 :> <<48, 48, 49, 48>>) @@                  \* U+03A6 "0010"
    (935 :> <<49, 49, 49, 49>>) @@                  \* U+03A7 "1111"
    (936 :> <<49, 49, 48, 49>>) @@                  \* U+03A8 "1101"
    (937 :> <<48, 49, 49>>)                         \* U+03A9 "011"

\* hebrew_chars(): 22 entries, char (Unicode scalar value) -> pattern over '0' (48), '1' (49).
hebrew_chars ==
    (1488 :> <<48, 49>>) @@                         \* U+05D0 "01"
    (1489 :> <<49, 48, 48, 48>>) @@                 \* U+05D1 "1000"
    (1490 :> <<49, 49, 48>>) @@                     \* U+05D2 "110"
    (1491 :> <<49, 48, 48>>) @@                     \* U+05D3 "100"
    (1492 :> <<49, 49, 49>>) @@                     \* U+05D4 "111"
    (1493 :> <<48>>) @@                             \* U+05D5 "0"
    (1494 :> <<49, 49, 48, 48>>) @@                 \* U+05D6 "1100"
    (1495 :> <<48, 48, 48, 48>>) @@                 \* U+05D7 "0000"
    (1496 :> <<48, 48, 49>>) @@                     \* U+05D8 "001"
    (1497 :> <<48, 48>>) @@                         \* U+05D9 "00"
    (1499 :> <<49, 48, 49>>) @@                     \* U+05DB "101"
    (1500 :> <<48, 49, 48, 48>>) @@                 \* U+05DC "0100"
    (1502 :> <<49, 49>>) @@                         \* U+05DE "11"
    (1504 :> <<49, 48>>) @@                         \* U+05E0 "10"
    (1505 :> <<49, 48, 49, 48>>) @@                 \* U+05E1 "1010"
    (1506 :> <<48, 49, 49, 49>>) @@                 \* U+05E2 "0111"
    (1508 :> <<48, 49, 49, 48>>) @@                 \* U+05E4 "0110"
    (1510 :> <<48, 49, 49>>) @@                     \* U+05E6 "011"
    (1511 :> <<49, 49, 48, 49>>) @@                 \* U+05E7 "1101"
    (1512 :> <<48, 49, 48>>) @@                     \* U+05E8 "010"
    (1513 :> <<48, 48, 48>>) @@                     \* U+05E9 "000"
    (1514 :> <<49>>)                                \* U+05EA "1"

\* arabic_chars(): 29 entries, char (Unicode scalar value) -> pattern over '0' (48), '1' (49).
arabic_chars ==
    (1575 :> <<48, 49>>) @@                         \* U+0627 "01"
    (1576 :> <<49, 48, 48, 48>>) @@                 \* U+0628 "1000"
    (1578 :> <<49>>) @@                             \* U+062A "1"
    (1579 :> <<49, 48, 49, 48>>) @@                 \* U+062B "1010"
    (1580 :> <<48, 49, 49, 49>>) @@                 \* U+062C "0111"
    (1581 :> <<48, 48, 48, 48>>) @@                 \* U+062D "0000"
    (1582 :> <<49, 49, 49>>) @@                     \* U+062E "111"
    (1583 :> <<49, 48, 48>>) @@                     \* U+062F "100"
    (1584 :> <<49, 49, 48, 48>>) @@                 \* U+0630 "1100"
    (1585 :> <<48, 49, 48>>) @@                     \* U+0631 "010"
    (1586 :> <<49, 49, 49, 48>>) @@                 \* U+0632 "1110"
    (1587 :> <<48, 48, 48>>) @@                     \* U+0633 "000"
    (1588 :> <<49, 49, 49, 49>>) @@                 \* U+0634 "1111"
    (1589 :> <<49, 48, 48, 49>>) @@                 \* U+0635 "1001"
    (1590 :> <<48, 48, 48, 49>>) @@                 \* U+0636 "0001"
    (1591 :> <<48, 48, 49>>) @@                     \* U+0637 "001"
    (1592 :> <<49, 48, 49, 49>>) @@                 \* U+0638 "1011"
    (1593 :> <<48, 49, 48, 49>>) @@                 \* U+0639 "0101"
    (1594 :> <<49, 49, 48>>) @@                     \* U+063A "110"
    (1601 :> <<48, 48, 49, 48>>) @@                 \* U+0641 "0010"
    (1602 :> <<49, 49, 48, 49>>) @@                 \* U+0642 "1101"
    (1603 :> <<49, 48, 49>>) @@                     \* U+0643 "101"
    (1604 :> <<48, 49, 48, 48>>) @@                 \* U+0644 "0100"
    (1605 :> <<49, 49>>) @@                         \* U+0645 "11"
    (1606 :> <<49, 48>>) @@                         \* U+0646 "10"
    (1607 :> <<48, 48, 49, 48, 48>>) @@             \* U+0647 "00100"
    (1608 :> <<48, 49, 49>>) @@                     \* U+0648 "011"
    (1610 :> <<48, 48>>) @@                         \* U+064A "00"
    (65152 :> <<48>>)                               \* U+FE80 "0"

\* persian_chars(): 32 entries, char (Unicode scalar value) -> pattern over '0' (48), '1' (49).
persian_chars ==
    (1575 :> <<48, 49>>) @@                         \* U+0627 "01"
    (1576 :> <<49, 48, 48, 48>>) @@                 \* U+0628 "1000"
    (1662 :> <<48, 49, 49, 48>>) @@                 \* U+067E "0110"
    (1578 :> <<49>>) @@                             \* U+062A "1"
    (1579 :> <<49, 48, 49, 48>>) @@                 \* U+062B "1010"
    (1580 :> <<48, 49, 49, 49>>) @@                 \* U+062C "0111"
    (1670 :> <<49, 49, 49, 48>>) @@                 \* U+0686 "1110"
    (1581 :> <<48, 48, 48, 48>>) @@                 \* U+062D "0000"
    (1582 :> <<49, 48, 48, 49>>) @@                 \* U+062E "1001"
    (1583 :> <<49, 48, 48>>) @@                     \* U+062F "100"
    (1584 :> <<48, 48, 48, 49>>) @@                 \* U+0630 "0001"
    (1585 :> <<48, 49, 48>>) @@                     \* U+0631 "010"
    (1586 :> <<49, 49, 48, 48>>) @@                 \* U+0632 "1100"
    (1688 :> <<49, 49, 48>>) @@                     \* U+0698 "110"
    (1587 :> <<48, 48, 48>>) @@                     \* U+0633 "000"
    (1588 :> <<49, 49, 49, 49>>) @@                 \* U+0634 "1111"
    (1589 :> <<48, 49, 48, 49>>) @@                 \* U+0635 "0101"
    (1590 :> <<48, 48, 49, 48, 48>>) @@             \* U+0636 "00100"
    (1591 :> <<48, 48, 49>>) @@                     \* U+0637 "001"
    (1592 :> <<49, 48, 49, 49>>) @@                 \* U+0638 "1011"
    (1593 :> <<49, 49, 49>>) @@                     \* U+0639 "111"
    (1594 :> <<48, 48, 49, 49>>) @@                 \* U+063A "0011"
    (1601 :> <<48, 48, 49, 48>>) @@                 \* U+0641 "0010"
    (1602 :> <<49, 49, 49, 48, 48, 48>>) @@         \* U+0642 "111000"
    (1705 :> <<49, 48, 49>>) @@                     \* U+06A9 "101"
    (1711 :> <<49, 49, 48, 49>>) @@                 \* U+06AF "1101"
    (1604 :> <<48, 49, 48, 48>>) @@                 \* U+0644 "0100"
    (1605 :> <<49, 49>>) @@                         \* U+0645 "11"
    (1606 :> <<49, 48>>) @@                         \* U+0646 "10"
    (1608 :> <<48, 49, 49>>) @@                     \* U+0648 "011"
    (1607 :> <<48>>) @@                             \* U+0647 "0"
    (1740 :> <<48, 48>>)                            \* U+06CC "00"

\* japanese_chars(): 55 entries, char (Unicode scalar value) -> pattern over '0' (48), '1' (49).
japanese_chars ==
    (12450 :> <<49, 49, 48, 49, 49>>) @@            \* U+30A2 "11011"
    (12459 :> <<48, 49, 48, 48>>) @@                \* U+30AB "0100"
    (12469 :> <<49, 48, 49, 48, 49>>) @@            \* U+30B5 "10101"
    (12479 :> <<49, 48>>) @@                        \* U+30BF "10"
    (12490 :> <<48, 49, 48>>) @@                    \* U+30CA "010"
    (12495 :> <<49, 48, 48, 48>>) @@                \* U+30CF "1000"
    (12510 :> <<49, 48, 48, 49>>) @@                \* U+30DE "1001"
    (12516 :> <<48, 49, 49>>) @@                    \* U+30E4 "011"
    (12521 :> <<48, 48, 48>>) @@                    \* U+30E9 "000"
    (12527 :> <<49, 48, 49>>) @@                    \* U+30EF "101"
    (12452 :> <<48, 49>>) @@                        \* U+30A4 "01"
    (12461 :> <<49, 48, 49, 48, 48>>) @@            \* U+30AD "10100"
    (12471 :> <<49, 49, 48, 49, 48>>) @@            \* U+30B7 "11010"
    (12481 :> <<48, 48, 49, 48>>) @@                \* U+30C1 "0010"
    (12491 :> <<49, 48, 49, 48>>) @@                \* U+30CB "1010"
    (12498 :> <<49, 49, 48, 48, 49>>) @@            \* U+30D2 "11001"
    (12511 :> <<48, 48, 49, 48, 49>>) @@            \* U+30DF "00101"
    (12522 :> <<49, 49, 48>>) @@                    \* U+30EA "110"
    (12528 :> <<48, 49, 48, 48, 49>>) @@            \* U+30F0 "01001"
    (12454 :> <<48, 48, 49>>) @@                    \* U+30A6 "001"
    (12463 :> <<48, 48, 48, 49>>) @@                \* U+30AF "0001"
    (12473 :> <<49, 49, 49, 48, 49>>) @@            \* U+30B9 "11101"
    (12484 :> <<48, 49, 49, 48>>) @@                \* U+30C4 "0110"
    (12492 :> <<48, 48, 48, 48>>) @@                \* U+30CC "0000"
    (12501 :> <<49, 49, 48, 48>>) @@                \* U+30D5 "1100"
    (12512 :> <<49>>) @@                            \* U+30E0 "1"
    (12518 :> <<49, 48, 48, 49, 49>>) @@            \* U+30E6 "10011"
    (12523 :> <<49, 48, 49, 49, 48>>) @@            \* U+30EB "10110"
    (12531 :> <<48, 49, 48, 49, 48>>) @@            \* U+30F3 "01010"
    (12456 :> <<49, 48, 49, 49, 49>>) @@            \* U+30A8 "10111"
    (12465 :> <<49, 48, 49, 49>>) @@                \* U+30B1 "1011"
    (12475 :> <<48, 49, 49, 49, 48>>) @@            \* U+30BB "01110"
    (12486 :> <<48, 49, 48, 49, 49>>) @@            \* U+30C6 "01011"
    (12493 :> <<49, 49, 48, 49>>) @@                \* U+30CD "1101"
    (12504 :> <<48>>) @@                            \* U+30D8 "0"
    (12513 :> <<49, 48, 48, 48, 49>>) @@            \* U+30E1 "10001"
    (12524 :> <<49, 49, 49>>) @@                    \* U+30EC "111"
    (12529 :> <<48, 49, 49, 48, 48>>) @@            \* U+30F1 "01100"
    (12458 :> <<48, 49, 48, 48, 48>>) @@            \* U+30AA "01000"
    (12467 :> <<49, 49, 49, 49>>) @@                \* U+30B3 "1111"
    (12477 :> <<49, 49, 49, 48>>) @@                \* U+30BD "1110"
    (12488 :> <<48, 48, 49, 48, 48>>) @@            \* U+30C8 "00100"
    (12494 :> <<48, 48, 49, 49>>) @@                \* U+30CE "0011"
    (12507 :> <<49, 48, 48>>) @@                    \* U+30DB "100"
    (12514 :> <<49, 48, 48, 49, 48>>) @@            \* U+30E2 "10010"
    (12520 :> <<49, 49>>) @@                        \* U+30E8 "11"
    (12525 :> <<48, 49, 48, 49>>) @@                \* U+30ED "0101"
    (12530 :> <<48, 49, 49, 49>>) @@                \* U+30F2 "0111"
    (12443 :> <<48, 48>>) @@                        \* U+309B "00"
    (12444 :> <<48, 48, 49, 49, 48>>) @@            \* U+309C "00110"
    (12290 :> <<48, 49, 48, 49, 48, 48>>) @@        \* U+3002 "010100"
    (12540 :> <<48, 49, 49, 48, 49>>) @@            \* U+30FC "01101"
    (12289 :> <<48, 49, 48, 49, 48, 49>>) @@        \* U+3001 "010101"
    (65288 :> <<49, 48, 49, 49, 48, 49>>) @@        \* U+FF08 "101101"
    (65289 :> <<48, 49, 48, 48, 49, 48>>)           \* U+FF09 "010010"

\* korean_chars(): 24 entries, char (Unicode scalar value) -> pattern over '0' (48), '1' (49).
korean_chars ==
    (12593 :> <<48, 49, 48, 48>>) @@                \* U+3131 "0100"
    (12596 :> <<48, 48, 49, 48>>) @@                \* U+3134 "0010"
    (12599 :> <<49, 48, 48, 48>>) @@                \* U+3137 "1000"
    (12601 :> <<48, 48, 48, 49>>) @@                \* U+3139 "0001"
    (12609 :> <<49, 49>>) @@                        \* U+3141 "11"
    (12610 :> <<48, 49, 49>>) @@                    \* U+3142 "011"
    (12613 :> <<49, 49, 48>>) @@                    \* U+3145 "110"
    (12615 :> <<49, 48, 49>>) @@                    \* U+3147 "101"
    (12616 :> <<48, 49, 49, 48>>) @@                \* U+3148 "0110"
    (12618 :> <<49, 48, 49, 48>>) @@                \* U+314A "1010"
    (12619 :> <<49, 48, 48, 49>>) @@                \* U+314B "1001"
    (12620 :> <<49, 49, 48, 48>>) @@                \* U+314C "1100"
    (12621 :> <<49, 49, 49>>) @@                    \* U+314D "111"
    (12622 :> <<48, 49, 49, 49>>) @@                \* U+314E "0111"
    (12623 :> <<48>>) @@                            \* U+314F "0"
    (12625 :> <<48, 48>>) @@                        \* U+3151 "00"
    (12627 :> <<49>>) @@                            \* U+3153 "1"
    (12629 :> <<48, 48, 48>>) @@                    \* U+3155 "000"
    (12631 :> <<48, 49>>) @@                        \* U+3157 "01"
    (12635 :> <<49, 48>>) @@                        \* U+315B "10"
    (12636 :> <<48, 48, 48, 48>>) @@                \* U+315C "0000"
    (12640 :> <<48, 49, 48>>) @@                    \* U+3160 "010"
    (12641 :> <<49, 48, 48>>) @@                    \* U+3161 "100"
    (12643 :> <<48, 48, 49>>)                       \* U+3163 "001"

\* thai_chars(): 52 entries, char (Unicode scalar value) -> pattern over '0' (48), '1' (49).
thai_chars ==
    (3585 :> <<49, 49, 48>>) @@                     \* U+0E01 "110"
    (3586 :> <<49, 48, 49, 48>>) @@                 \* U+0E02 "1010"
    (3588 :> <<49, 48, 49>>) @@                     \* U+0E04 "101"
    (3591 :> <<49, 48, 49, 49, 48>>) @@             \* U+0E07 "10110"
    (3592 :> <<49, 48, 48, 49, 48>>) @@             \* U+0E08 "10010"
    (3593 :> <<49, 49, 49, 49>>) @@                 \* U+0E09 "1111"
    (3594 :> <<49, 48, 48, 49>>) @@                 \* U+0E0A "1001"
    (3595 :> <<49, 49, 48, 48>>) @@                 \* U+0E0B "1100"
    (3597 :> <<48, 49, 49, 49>>) @@                 \* U+0E0D "0111"
    (3604 :> <<49, 48, 48>>) @@                     \* U+0E14 "100"
    (3605 :> <<49>>) @@                             \* U+0E15 "1"
    (3606 :> <<49, 48, 49, 48, 48>>) @@             \* U+0E16 "10100"
    (3607 :> <<49, 48, 48, 49, 49>>) @@             \* U+0E17 "10011"
    (3609 :> <<49, 48>>) @@                         \* U+0E19 "10"
    (3610 :> <<49, 48, 48, 48>>) @@                 \* U+0E1A "1000"
    (3611 :> <<48, 49, 49, 48>>) @@                 \* U+0E1B "0110"
    (3612 :> <<49, 49, 48, 49>>) @@                 \* U+0E1C "1101"
    (3613 :> <<49, 48, 49, 48, 49>>) @@             \* U+0E1D "10101"
    (3614 :> <<48, 49, 49, 48, 48>>) @@             \* U+0E1E "01100"
    (3615 :> <<48, 48, 49, 48>>) @@                 \* U+0E1F "0010"
    (3617 :> <<49, 49>>) @@                         \* U+0E21 "11"
    (3618 :> <<49, 48, 49, 49>>) @@                 \* U+0E22 "1011"
    (3619 :> <<48, 49, 48>>) @@                     \* U+0E23 "010"
    (3621 :> <<48, 49, 48, 48>>) @@                 \* U+0E25 "0100"
    (3623 :> <<48, 49, 49>>) @@                     \* U+0E27 "011"
    (3626 :> <<48, 48, 48>>) @@                     \* U+0E2A "000"
    (3627 :> <<48, 48, 48, 48>>) @@                 \* U+0E2B "0000"
    (3629 :> <<49, 48, 48, 48, 49>>) @@             \* U+0E2D "10001"
    (3630 :> <<49, 49, 48, 49, 49>>) @@             \* U+0E2E "11011"
    (3620 :> <<48, 49, 48, 49, 49>>) @@             \* U+0E24 "01011"
    (3632 :> <<48, 49, 48, 48, 48>>) @@             \* U+0E30 "01000"
    (3634 :> <<48, 49>>) @@                         \* U+0E32 "01"
    (3636 :> <<48, 48, 49, 48, 48>>) @@             \* U+0E34 "00100"
    (3637 :> <<48, 48>>) @@                         \* U+0E35 "00"
    (3638 :> <<48, 48, 49, 49, 48>>) @@             \* U+0E36 "00110"
    (3639 :> <<48, 48, 49, 49>>) @@                 \* U+0E37 "0011"
    (3640 :> <<48, 48, 49, 48, 49>>) @@             \* U+0E38 "00101"
    (3641 :> <<49, 49, 49, 48>>) @@                 \* U+0E39 "1110"
    (3648 :> <<48>>) @@                             \* U+0E40 "0"
    (3649 :> <<48, 49, 48, 49>>) @@                 \* U+0E41 "0101"
    (3652 :> <<48, 49, 48, 48, 49>>) @@             \* U+0E44 "01001"
    (3650 :> <<49, 49, 49>>) @@                     \* U+0E42 "111"
    (3635 :> <<48, 48, 48, 49, 48>>) @@             \* U+0E33 "00010"
    (3656 :> <<48, 48, 49>>) @@                     \* U+0E48 "001"
    (3657 :> <<48, 48, 48, 49>>) @@                 \* U+0E49 "0001"
    (3658 :> <<49, 49, 48, 48, 48>>) @@             \* U+0E4A "11000"
    (3659 :> <<48, 49, 48, 49, 48>>) @@             \* U+0E4B "01010"
    (3633 :> <<48, 49, 49, 48, 49>>) @@             \* U+0E31 "01101"
    (3655 :> <<49, 49, 49, 48, 48>>) @@             \* U+0E47 "11100"
    (3660 :> <<49, 49, 48, 48, 49>>) @@             \* U+0E4C "11001"
    (3654 :> <<49, 48, 49, 49, 49>>) @@             \* U+0E46 "10111"
    (3631 :> <<49, 49, 48, 49, 48>>)                \* U+0E2F "11010"

----------------------------------------------------------------------------
(* Generic helpers for the std types the code uses.                        *)

\* The smallest element of a non-empty set of integers: the first key a
\* BTreeMap iteration yields.
Min(S) == CHOOSE x \in S : \A y \in S : x <= y

\* BTreeMap::insert: the value of an existing key is replaced.
MapInsert(m, k, v) == (k :> v) @@ m

\* char::is_whitespace: the Unicode White_Space property.
is_whitespace(c) ==
    c \in ({9, 10, 11, 12, 13, 32, 133, 160, 5760} \cup (8192 .. 8202)
           \cup {8232, 8233, 8239, 8287, 12288})

\* char::to_uppercase, as the sequence of chars it yields.  Stated for the
\* chars the model feeds it: Latin-1 (U+0000..U+00FF), the Greek letters
\* U+03B1..U+03C9 and every key of the tables (all of which are their own
\* uppercase except U+00DF, whose uppercase is "SS").
char_to_uppercase(c) ==
    IF c \in 97 .. 122 THEN <<c - 32>>
    ELSE IF c = 181 THEN <<924>>
    ELSE IF c = 223 THEN <<83, 83>>
    ELSE IF c \in (224 .. 254) \ {247} THEN <<c - 32>>
    ELSE IF c = 255 THEN <<376>>
    ELSE IF c = 962 THEN <<931>>
    ELSE IF c \in 945 .. 969 THEN <<c - 32>>
    ELSE <<c>>

\* to_uppercase mapping char to char: a char whose uppercase is several
\* chars is left as it is.
to_uppercase_simple(s) ==
    [i \in 1 .. Len(s) |->
        IF Len(char_to_uppercase(s[i])) = 1 THEN char_to_uppercase(s[i])[1]
        ELSE s[i]]

\* str::to_uppercase: char by char.
RECURSIVE to_uppercase(_)
to_uppercase(s) ==
    IF s = <<>> THEN <<>>
    ELSE char_to_uppercase(Head(s)) \o to_uppercase(Tail(s))

\* str::replace(char::is_whitespace, &to.to_string()): every whitespace
\* char, one by one, becomes the char `to`.
replace_whitespace(s, to) ==
    [i \in 1 .. Len(s) |-> IF is_whitespace(s[i]) THEN to ELSE s[i]]

\* str::replace(from, &to.to_string()) for a char pattern.
replace_char(s, from, to) ==
    [i \in 1 .. Len(s) |-> IF s[i] = from THEN to ELSE s[i]]

RECURSIVE trim_start(_)
trim_start(s) ==
    IF s = <<>> \/ ~is_whitespace(Head(s)) THEN s ELSE trim_start(Tail(s))

RECURSIVE trim_end(_)
trim_end(s) ==
    IF s = <<>> \/ ~is_whitespace(s[Len(s)]) THEN s
    ELSE trim_end(SubSeq(s, 1, Len(s) - 1))

\* str::trim: leading and trailing whitespace removed.
trim(s) == trim_end(trim_start(s))

\* str::split(sep) for a char separator, collected: n separators give n + 1
\* pieces, empty pieces included; the empty string gives one empty piece.
RECURSIVE split_from(_, _, _)
split_from(s, sep, piece) ==
    IF s = <<>> THEN <<piece>>
    ELSE IF Head(s) = sep THEN <<piece>> \o split_from(Tail(s), sep, <<>>)
    ELSE split_from(Tail(s), sep, Append(piece, Head(s)))

split(s, sep) == split_from(s, sep, <<>>)

----------------------------------------------------------------------------
(* Options.                                                                *)

\* (self.options.invalid_char_callback)(c) for the callbacks the model
\* draws: "identity" is the default |c| c, "mark" is |_| '?', "zero" is
\* |_| '0'.
call_invalid_char_callback(callback, c) ==
    CASE callback = "identity" -> c
      [] callback = "mark" -> 63
      [] callback = "zero" -> 48

\* impl Default for Options.
DefaultOptions ==
    [dash |-> 45, dot |-> 46, space |-> 47, separator |-> 32,
     invalid_char_callback |-> "identity", priority |-> Latin]

\* The Options values the instances are built with: the default; the
\* glyphs of the crate's tests (EN DASH, BULLET, backslash); the priorities
\* Greek, Persian and Undefined; the separator '|'; the callbacks |_| '?'
\* and |_| '0'; the word-space glyph '#'; the dot glyph '1'; the separators
\* TAB and '~'.
OptionsSet ==
    { DefaultOptions,
      [DefaultOptions EXCEPT !.dash = 8211, !.dot = 8226, !.space = 92],
      [DefaultOptions EXCEPT !.priority = Greek],
      [DefaultOptions EXCEPT !.priority = Persian],
      [DefaultOptions EXCEPT !.priority = Undefined],
      [DefaultOptions EXCEPT !.separator = 124],
      [DefaultOptions EXCEPT !.invalid_char_callback = "mark"],
      [DefaultOptions EXCEPT !.invalid_char_callback = "zero"],
      [DefaultOptions EXCEPT !.space = 35],
      [DefaultOptions EXCEPT !.dot = 49],
      [DefaultOptions EXCEPT !.separator = 9],
      [DefaultOptions EXCEPT !.separator = 126] }

----------------------------------------------------------------------------
(* Table builder.                                                          *)

\* base_characters(): every script's table under its own tag.
base_characters ==
    (Latin :> latin_chars) @@ (Numbers :> numbers_chars) @@
    (Punctuation :> punctuation_chars) @@
    (LatinExtended :> latin_extended_chars) @@
    (Cyrillic :> cyrillic_chars) @@ (Greek :> greek_chars) @@
    (Hebrew :> hebrew_chars) @@ (Arabic :> arabic_chars) @@
    (Persian :> persian_chars) @@ (Japanese :> japanese_chars) @@
    (Korean :> korean_chars) @@ (Thai :> thai_chars)

\* get_characters with the word-space glyph fixed to '/' whatever
\* options.space is.
get_characters_fixed_space(o) ==
    LET with_priority ==
            IF o.priority \in DOMAIN base_characters
            THEN MapInsert(base_characters, Undefined,
                           base_characters[o.priority])
            ELSE base_characters
    IN  MapInsert(with_priority, Latin,
                  MapInsert(base_characters[Latin], o.separator, <<47>>))

\* get_characters without the separator -> space glyph entry of Latin.
get_characters_no_word_space(o) ==
    IF o.priority \in DOMAIN base_characters
    THEN MapInsert(base_characters, Undefined, base_characters[o.priority])
    ELSE base_characters

\* get_characters without the priority overlay under Undefined.
get_characters_no_overlay(o) ==
    MapInsert(base_characters, Latin,
              MapInsert(base_characters[Latin], o.separator, <<o.space>>))

\* get_characters with the overlay under Undefined always a copy of the
\* Latin table, whatever options.priority is.
get_characters_latin_overlay(o) ==
    MapInsert(MapInsert(base_characters, Undefined, base_characters[Latin]),
              Latin,
              MapInsert(base_characters[Latin], o.separator, <<o.space>>))

\* get_characters(options): the base tables, a copy of the priority table
\* under Undefined (when the priority tag has a base table), and Latin
\* rebuilt from the base Latin table plus separator -> space glyph.
get_characters(o) ==
    LET base == base_characters
        with_priority ==
            IF o.priority \in DOMAIN base
            THEN MapInsert(base, Undefined, base[o.priority])
            ELSE base
    IN  IF Latin \in DOMAIN base
        THEN MapInsert(with_priority, Latin,
                       MapInsert(base[Latin], o.separator, <<o.space>>))
        ELSE with_priority

\* get_mapped_characters(options): every pattern of get_characters rendered
\* (mapped_value: '0' -> dot first, then '1' -> dash).
mapped_value(o, value) ==
    replace_char(replace_char(value, 48, o.dot), 49, o.dash)

get_mapped_characters(o) ==
    LET chars == get_characters(o)
    IN  [set \in DOMAIN chars |->
            [key \in DOMAIN chars[set] |-> mapped_value(o, chars[set][key])]]

\* swap_set with insert instead of entry().or_insert(): the last writer of a
\* value wins.
swap_set_last_writer(swapped, chars) ==
    LET values == {chars[key] : key \in DOMAIN chars}
    IN  [value \in values |->
            CHOOSE key \in DOMAIN chars :
                /\ chars[key] = value
                /\ \A other \in DOMAIN chars : chars[other] = value => other <= key]
            @@ swapped

\* The inner loop of swap_characters over one table, `for (key, value) in
\* chars { swapped.entry(value).or_insert(key); }`, keys ascending: a value
\* already in swapped keeps its char; a new value gets the smallest key of
\* the table that holds it.
swap_set(swapped, chars) ==
    LET fresh == {chars[key] : key \in DOMAIN chars} \ DOMAIN swapped
    IN  [value \in fresh |-> Min({key \in DOMAIN chars : chars[key] = value})]
            @@ swapped

\* swap_sets visiting the tables from the last tag to the first.
RECURSIVE swap_sets_descending(_, _, _)
swap_sets_descending(swapped, mapped, sets) ==
    IF sets = {} THEN swapped
    ELSE LET set == CHOOSE x \in sets : \A y \in sets : y <= x
         IN  swap_sets_descending(swap_set(swapped, mapped[set]), mapped,
                                  sets \ {set})

\* The outer loop of swap_characters over mapped_characters.into_values(),
\* tags ascending.
RECURSIVE swap_sets(_, _, _)
swap_sets(swapped, mapped, sets) ==
    IF sets = {} THEN swapped
    ELSE LET set == Min(sets)
         IN  swap_sets(swap_set(swapped, mapped[set]), mapped, sets \ {set})

\* swap_characters(options): rendered pattern -> char, first writer wins.
swap_characters(o) ==
    LET mapped_characters == get_mapped_characters(o)
    IN  swap_sets(<<>>, mapped_characters, DOMAIN mapped_characters)

\* decode calls swap_characters(self.options) on every call; the index is
\* a function of the Options alone, so its value for each Options of
\* OptionsSet is computed once and looked up.
SwappedCharacters == [o \in OptionsSet |-> swap_characters(o)]

swapped_characters(o) ==
    IF o \in OptionsSet THEN SwappedCharacters[o] ELSE swap_characters(o)

----------------------------------------------------------------------------
(* MorseCode.                                                              *)

\* The instance MorseCode::new(options) returns.
new(o) == [options |-> o, characters |-> get_characters(o)]

\* find_encoded scanning the tables from the last tag to the first.
RECURSIVE find_encoded_last_table(_, _, _)
find_encoded_last_table(chars, sets, character) ==
    IF sets = {} THEN <<>>
    ELSE LET set == CHOOSE x \in sets : \A y \in sets : y <= x
         IN  IF character \in DOMAIN chars[set]
             THEN <<chars[set][character]>>
             ELSE find_encoded_last_table(chars, sets \ {set}, character)

\* The inner loop of encode: the pattern of `character` in the first table
\* of self.characters.values() (tags ascending) that has it as a key, as
\* <<pattern>>; <<>> when no table has it (found = false).
RECURSIVE find_encoded(_, _, _)
find_encoded(chars, sets, character) ==
    IF sets = {} THEN <<>>
    ELSE LET set == Min(sets)
         IN  IF character \in DOMAIN chars[set]
             THEN <<chars[set][character]>>
             ELSE find_encoded(chars, sets \ {set}, character)

\* The outer loop of encode over processed_text.chars(): the pattern or the
\* callback's char, then the separator.
RECURSIVE encode_chars(_, _)
encode_chars(self, processed_text) ==
    IF processed_text = <<>> THEN <<>>
    ELSE LET character == Head(processed_text)
             encoded == find_encoded(self.characters,
                                     DOMAIN self.characters, character)
             unit == IF encoded # <<>> THEN encoded[1]
                     ELSE <<call_invalid_char_callback(
                               self.options.invalid_char_callback, character)>>
         IN  unit \o <<self.options.separator>>
                  \o encode_chars(self, Tail(processed_text))

\* processed_text_of without the case fold.
processed_text_no_uppercase(o, text) ==
    trim(replace_whitespace(text, o.separator))

\* The text encode resolves char by char.
processed_text_of(o, text) ==
    to_uppercase(trim(replace_whitespace(text, o.separator)))

\* MorseCode::encode(&self, text).
encode(self, text) ==
    LET o == self.options
        looped == encode_chars(self, processed_text_of(o, text))
        result == replace_char(replace_char(looped, 48, o.dot), 49, o.dash)
    IN  IF result # <<>> /\ result[Len(result)] = o.separator
        THEN SubSeq(result, 1, Len(result) - 1)
        ELSE result

\* decode_unit emitting a fixed marker '?' for an unresolved unit.
decode_unit_marks_unknown(swapped, unit) ==
    IF unit \in DOMAIN swapped THEN <<swapped[unit]>> ELSE <<63>>

\* The closure decode maps over the units: the index's char, or the unit
\* itself.
decode_unit(swapped, unit) ==
    IF unit \in DOMAIN swapped THEN <<swapped[unit]>> ELSE unit

\* collect giving up at the first unresolved unit.
RECURSIVE collect_stops_at_unknown(_, _)
collect_stops_at_unknown(swapped, units) ==
    IF units = <<>> THEN <<>>
    ELSE IF Head(units) \notin DOMAIN swapped THEN Head(units)
    ELSE <<swapped[Head(units)]>>
             \o collect_stops_at_unknown(swapped, Tail(units))

RECURSIVE collect(_, _)
collect(swapped, units) ==
    IF units = <<>> THEN <<>>
    ELSE decode_unit(swapped, Head(units)) \o collect(swapped, Tail(units))

\* The units decode looks up.
units_of(o, morse) ==
    split(trim(replace_whitespace(morse, o.separator)), o.separator)

\* MorseCode::decode(&self, morse).
decode(self, morse) ==
    LET swapped == swapped_characters(self.options)
    IN  collect(swapped, units_of(self.options, morse))

----------------------------------------------------------------------------
(* Inputs of the calls.                                                    *)

MaxLen == 2
MaxSpacedLen == 4
MaxMorseLen == 3

\* Every string over `alphabet` of at most `n` chars.
Strings(alphabet, n) == UNION {[1 .. k -> alphabet] : k \in 0 .. n}

\* 'a', ' ', TAB, '#' (a key of no table), Greek capital and small omega,
\* Arabic/Persian khah, sharp s, '|'.
Alphabet == {97, 32, 9, 35, 937, 969, 1582, 223, 124}

\* Words of Latin letters and spaces.
SpacedAlphabet == {97, 66, 32}

\* Every char that is a key of some base table.
TableKeys == UNION {DOMAIN base_characters[set] : set \in DOMAIN base_characters}

\* "the quick brown fox".
TheQuickBrownFox ==
    <<116, 104, 101, 32, 113, 117, 105, 99, 107, 32, 98, 114, 111, 119,
    110, 32, 102, 111, 120>>

\* The texts of the crate's tests that the properties name.
TestTexts == {TheQuickBrownFox}

Texts ==
    Strings(Alphabet, MaxLen) \cup Strings(SpacedAlphabet, MaxSpacedLen)
        \cup {<<c>> : c \in TableKeys} \cup TestTexts

\* '.', '-', ' ', '/', 'x'.
MorseAlphabet == {46, 45, 32, 47, 120}

\* "----- .---- ..--- ...-- ....- ..... -.... --... ---.. ----.".
DigitsMorse ==
    <<45, 45, 45, 45, 45, 32, 46, 45, 45, 45, 45, 32, 46, 46, 45, 45, 45,
    32, 46, 46, 46, 45, 45, 32, 46, 46, 46, 46, 45, 32, 46, 46, 46, 46,
    46, 32, 45, 46, 46, 46, 46, 32, 45, 45, 46, 46, 46, 32, 45, 45, 45,
    46, 46, 32, 45, 45, 45, 45, 46>>

\* The Morse strings of the crate's tests that the properties name.
TestMorse == {DigitsMorse}

MorseInputs == Strings(MorseAlphabet, MaxMorseLen) \cup TestMorse

\* The arguments of the calls that follow the first call on an instance:
\* "", "a B", "#"; ".-", ".- x".
FollowUpTexts == {<<>>, <<97, 32, 66>>, <<35>>}

FollowUpMorse == {<<46, 45>>, <<46, 45, 32, 120>>}

\* The Options of the instances built after calls were made: the default,
\* the priority Greek, the separator '|'.
FollowUpOptions ==
    { DefaultOptions,
      [DefaultOptions EXCEPT !.priority = Greek],
      [DefaultOptions EXCEPT !.separator = 124] }

----------------------------------------------------------------------------
(* The state machine: an instance and the calls made on it.                *)

\* The instance in use, as the &self the methods receive.
Self == [options |-> options, characters |-> characters]

\* MorseCode::new(o): a fresh instance replaces the one in use.
New(o) ==
    /\ options' = new(o).options
    /\ characters' = new(o).characters
    /\ op' = "new"
    /\ input' = <<>>
    /\ output' = <<>>
    /\ source' = <<>>

\* self.encode(text): reads the instance, returns a String.  When text is
\* what the preceding decode returned for the output of an encode, `source`
\* records that output and the text it was the encoding of.
Encode(text) ==
    /\ op' = "encode"
    /\ input' = text
    /\ output' = encode(Self, text)
    /\ source' = IF op = "decode" /\ source # <<>> /\ text = output
                 THEN <<input, source[1]>>
                 ELSE <<>>
    /\ UNCHANGED <<options, characters>>

\* decode leaving the default Options in the instance.
Decode_resetting_options(morse) ==
    /\ op' = "decode"
    /\ input' = morse
    /\ output' = decode(Self, morse)
    /\ source' = IF op = "encode" /\ morse = output THEN <<input>> ELSE <<>>
    /\ options' = DefaultOptions
    /\ UNCHANGED characters

\* self.decode(morse): reads the instance, returns a String.  `source`
\* records the text when morse is what the preceding encode returned.
Decode(morse) ==
    /\ op' = "decode"
    /\ input' = morse
    /\ output' = decode(Self, morse)
    /\ source' = IF op = "encode" /\ morse = output THEN <<input>> ELSE <<>>
    /\ UNCHANGED <<options, characters>>

Init ==
    /\ \E o \in OptionsSet :
          /\ options = new(o).options
          /\ characters = new(o).characters
    /\ op = "new"
    /\ input = <<>>
    /\ output = <<>>
    /\ source = <<>>

\* An instance built before any call draws its Options from OptionsSet, one
\* built after a call from FollowUpOptions.
NewArguments == IF op = "new" THEN OptionsSet ELSE FollowUpOptions

\* The first call on an instance draws its argument from the full input
\* sets, the calls after it from the follow-up sets; a decode may also be
\* given what the preceding encode returned, and an encode what the
\* preceding decode returned for an encode's output.
EncodeArguments ==
    (IF op = "new" THEN Texts ELSE FollowUpTexts)
        \cup (IF op = "decode" /\ source # <<>> THEN {output} ELSE {})

DecodeArguments ==
    (IF op = "new" THEN MorseInputs ELSE FollowUpMorse)
        \cup (IF op = "encode" THEN {output} ELSE {})

Next ==
    \/ \E o \in NewArguments : New(o)
    \/ \E text \in EncodeArguments : Encode(text)
    \/ \E morse \in DecodeArguments : Decode(morse)

Spec == Init /\ [][Next]_vars

----------------------------------------------------------------------------
(* Vocabulary of the properties.                                           *)

\* The fixed tag order the properties name.
TagOrder ==
    <<Undefined, Latin, Numbers, Punctuation, LatinExtended, Cyrillic, Greek,
      Hebrew, Arabic, Persian, Japanese, Korean, Thai>>

\* The sum of f[1] .. f[n].
RECURSIVE SumTo(_, _)
SumTo(f, n) == IF n = 0 THEN 0 ELSE f[n] + SumTo(f, n - 1)

\* c is a key of some table of the instance.
IsKey(c) == \E set \in DOMAIN characters : c \in DOMAIN characters[set]

\* The documented precondition on the glyphs: dash, dot and word-space are
\* pairwise distinct, none is the separator, none is whitespace, and none
\* of the four is '0' or '1'.
WellFormed(o) ==
    /\ Cardinality({o.dash, o.dot, o.space, o.separator}) = 4
    /\ {o.dash, o.dot, o.space, o.separator} \cap {48, 49} = {}
    /\ \A g \in {o.dash, o.dot, o.space} : ~is_whitespace(g)

----------------------------------------------------------------------------
(* C2.  For any Options, encode("") returns "" and decode("") returns "".  *)
C2_EmptyInEmptyOut ==
    (op \in {"encode", "decode"} /\ input = <<>>) => output = <<>>

\* decode("") was called on what encode("") returned, and returned "".
C2_Witness ==
    op = "decode" /\ input = <<>> /\ source = << <<>> >> /\ output = <<>>

(* C3.  Encoding is insensitive to case: what encode returned for s is     *)
(* what encode returns for uppercase(s).                                   *)
C3_CaseInsensitive ==
    op = "encode" => output = encode(Self, to_uppercase(input))

\* A text with a lower-case letter was encoded to a pattern.
C3_Witness ==
    /\ op = "encode"
    /\ input = <<97, 32, 66>>
    /\ options = DefaultOptions
    /\ output = <<46, 45, 32, 47, 32, 45, 46, 46, 46>>

(* C8.  Decode splits on the separator; a unit that is a key of the reverse *)
(* index yields its char, any other unit yields itself; the result is the  *)
(* outputs in input order with nothing between them, and an unresolved     *)
(* unit does not stop the units after it.                                  *)
C8_DecodePassThrough ==
    op = "decode" =>
        LET swapped == swapped_characters(options)
            units == units_of(options, input)
            width == [i \in 1 .. Len(units) |->
                        IF units[i] \in DOMAIN swapped THEN 1
                        ELSE Len(units[i])]
            start(i) == SumTo(width, i - 1)
        IN  /\ Len(output) = SumTo(width, Len(units))
            /\ \A i \in 1 .. Len(units) :
                  SubSeq(output, start(i) + 1, start(i) + width[i]) =
                      IF units[i] \in DOMAIN swapped
                      THEN <<swapped[units[i]]>>
                      ELSE units[i]

\* "x ." was decoded to "xE": the unresolved unit passed through and the
\* unit after it was resolved.
C8_Witness ==
    /\ op = "decode"
    /\ options = DefaultOptions
    /\ input = <<120, 32, 46>>
    /\ output = <<120, 69>>

(* C5.  Encode resolves each char of the normalized text with the pattern  *)
(* of the first table, in the order Undefined (priority overlay), Latin,   *)
(* Numbers, ..., Thai, that has the char as a key; so a char that the      *)
(* priority script has as a key is encoded with the priority script's      *)
(* pattern, whatever the other tables hold for it.                         *)
C5_EncodeResolutionOrder ==
    (op = "encode" /\ WellFormed(options)) =>
        LET text == processed_text_of(options, input)
            units == split(output, options.separator)
            first(c) ==
                TagOrder[Min({i \in 1 .. Len(TagOrder) :
                                /\ TagOrder[i] \in DOMAIN characters
                                /\ c \in DOMAIN characters[TagOrder[i]]})]
        IN  \A i \in 1 .. Len(text) :
               /\ IsKey(text[i]) =>
                    /\ i <= Len(units)
                    /\ units[i] =
                         mapped_value(options, characters[first(text[i])][text[i]])
               /\ (/\ options.priority \in DOMAIN base_characters
                   /\ text[i] \in DOMAIN base_characters[options.priority]) =>
                    /\ i <= Len(units)
                    /\ units[i] =
                         mapped_value(options,
                             base_characters[options.priority][text[i]])

\* With priority Persian, khah (Arabic "111", Persian "1001") was encoded
\* with the Persian pattern.
C5_Witness ==
    /\ op = "encode"
    /\ options = [DefaultOptions EXCEPT !.priority = Persian]
    /\ input = <<1582>>
    /\ output = <<45, 46, 46, 45>>

\* The rendered tables of each Options of OptionsSet.
MappedCharacters == [o \in OptionsSet |-> get_mapped_characters(o)]

(* C6.  The reverse index gives every rendered pattern to the first table, *)
(* in the order Undefined (priority overlay), Latin, Numbers, ..., that    *)
(* holds it: decode of a single unit p that some char holds returns a char *)
(* of that first table whose rendered pattern is p; in particular, a       *)
(* pattern held by a char of the priority script decodes to a char of the  *)
(* priority script.                                                        *)
C6_ReverseIndexFirstTableWins ==
    (op = "decode" /\ WellFormed(options)) =>
        LET mapped == MappedCharacters[options]
            holders(set) == {key \in DOMAIN mapped[set] : mapped[set][key] = input}
            holding == {i \in 1 .. Len(TagOrder) :
                          /\ TagOrder[i] \in DOMAIN mapped
                          /\ holders(TagOrder[i]) # {}}
        IN  holding # {} =>
               /\ Len(output) = 1
               /\ output[1] \in holders(TagOrder[Min(holding)])
               /\ (/\ options.priority \in DOMAIN base_characters
                   /\ \E key \in DOMAIN base_characters[options.priority] :
                         mapped_value(options,
                             base_characters[options.priority][key]) = input)
                    => output[1] \in DOMAIN base_characters[options.priority]

\* With priority Greek, ".--" (Latin W, Greek omega) was decoded to omega.
C6_Witness ==
    /\ op = "decode"
    /\ options = [DefaultOptions EXCEPT !.priority = Greek]
    /\ input = <<46, 45, 45>>
    /\ output = <<937>>

----------------------------------------------------------------------------
(* Round trips.                                                            *)

\* No two keys of the base table of `set` have the same pattern.
NoInternalCollision(set) ==
    \A k1, k2 \in DOMAIN base_characters[set] :
        base_characters[set][k1] = base_characters[set][k2] => k1 = k2

\* The scripts whose base table has no internal collision.
CollisionFreeScripts ==
    {set \in DOMAIN base_characters : NoInternalCollision(set)}

\* text is made of letters of the script `set` (a key of its table, or a
\* char whose uppercase is one) and, if `spaces`, of ' '.
IsTextOf(set, text, spaces) ==
    \A i \in 1 .. Len(text) :
        \/ spaces /\ text[i] = 32
        \/ \E key \in DOMAIN base_characters[set] :
              char_to_uppercase(text[i]) = <<key>>

\* The last call decoded what encode returned for a text of letters and
\* spaces of the priority script, whose table has no internal collision.
PriorityRoundTrip ==
    /\ op = "decode"
    /\ source # <<>>
    /\ options.priority \in CollisionFreeScripts
    /\ IsTextOf(options.priority, source[1], TRUE)

(* C1, as claimed.  For every Options whose priority table has no internal *)
(* collision and every text of priority-script letters and spaces, leading, *)
(* trailing and repeated spaces included, decode(encode(text)) is          *)
(* uppercase(text).                                                        *)
C1_RoundTripAnySpaces ==
    PriorityRoundTrip => output = to_uppercase(source[1])

(* C1, amended.  For every Options with separator ' ' and well-formed      *)
(* glyphs whose priority table has no internal collision, and every text   *)
(* of priority-script letters and spaces that neither begins nor ends with *)
(* a space (repeated spaces inside included), decode(encode(text)) is      *)
(* uppercase(text).                                                        *)
C1_RoundTripInnerSpaces ==
    (/\ PriorityRoundTrip
     /\ options.separator = 32
     /\ WellFormed(options)
     /\ source[1] # <<>> => (Head(source[1]) # 32
                              /\ source[1][Len(source[1])] # 32))
        => output = to_uppercase(source[1])

\* "a  B", with a repeated inner space, came back as "A  B".
C1_Witness ==
    /\ op = "decode"
    /\ options = DefaultOptions
    /\ source = << <<97, 32, 32, 66>> >>
    /\ output = <<65, 32, 32, 66>>

\* The last call decoded what encode returned for a non-empty text, under
\* well-formed glyphs.
DecodedEncoding ==
    op = "decode" /\ source # <<>> /\ source[1] # <<>> /\ WellFormed(options)

\* text is made of keys of the base table of S.
IsTextOfKeys(S, text) ==
    \A i \in 1 .. Len(text) : text[i] \in DOMAIN base_characters[S]

\* The tags before S whose table in the instance has a key with `pattern`.
EarlierHolders(S, pattern) ==
    {e \in 0 .. S - 1 :
        /\ e \in DOMAIN characters
        /\ \E key \in DOMAIN characters[e] : characters[e][key] = pattern}

\* The first table before S that holds `pattern`, and its chars holding it.
EarlierTableChars(S, pattern) ==
    LET e == Min(EarlierHolders(S, pattern))
    IN  {key \in DOMAIN characters[e] : characters[e][key] = pattern}

\* c is a key of a table of the instance before S.
KeyBefore(S, c) ==
    \E e \in 0 .. S - 1 : e \in DOMAIN characters /\ c \in DOMAIN characters[e]

\* The pattern of c in the first table of the instance that has c as a key.
FirstPattern(c) ==
    characters[Min({set \in DOMAIN characters :
                       c \in DOMAIN characters[set]})][c]

(* C9, as claimed.  For a non-Latin script S whose table has no internal   *)
(* collision, decode(encode(t)) = t for every text t of keys of S when S   *)
(* is the priority; with priority Latin, for each char of t whose S        *)
(* pattern is also held by a char of a table before S, decode returns that *)
(* earlier table's char, a holder of the S pattern, not the original.      *)
C9_NonLatinRoundTripAsClaimed ==
    DecodedEncoding =>
        \A S \in CollisionFreeScripts \ {Latin} :
            IsTextOfKeys(S, source[1]) =>
                /\ options.priority = S => output = source[1]
                /\ options.priority = Latin =>
                     /\ Len(output) = Len(source[1])
                     /\ \A i \in 1 .. Len(source[1]) :
                           LET pattern == base_characters[S][source[1][i]]
                           IN  EarlierHolders(S, pattern) # {} =>
                                  /\ output[i] # source[1][i]
                                  /\ output[i] \in EarlierTableChars(S, pattern)

(* C9, amended.  For a non-Latin script S whose table has no internal      *)
(* collision, decode(encode(t)) = t for every text t of keys of S when S   *)
(* is the priority.  With priority Latin decode returns one char per char  *)
(* c of t: when no table before S has c as a key and the S pattern of c is *)
(* held by a char of a table before S, a char of the first such table that *)
(* holds the S pattern, not c; when a table before S has c as a key, c was *)
(* encoded with the pattern of the first table having it, and decode       *)
(* returns a char of the first table holding that pattern.                 *)
C9_NonLatinRoundTrip ==
    DecodedEncoding =>
        \A S \in CollisionFreeScripts \ {Latin} :
            IsTextOfKeys(S, source[1]) =>
                /\ options.priority = S => output = source[1]
                /\ options.priority = Latin =>
                     /\ Len(output) = Len(source[1])
                     /\ \A i \in 1 .. Len(source[1]) :
                           LET c == source[1][i]
                               pattern == base_characters[S][c]
                           IN  /\ (~KeyBefore(S, c)
                                   /\ EarlierHolders(S, pattern) # {}) =>
                                     /\ output[i] # c
                                     /\ output[i] \in
                                           EarlierTableChars(S, pattern)
                               /\ KeyBefore(S, c) =>
                                     output[i] \in
                                         EarlierTableChars(S, FirstPattern(c))

\* With priority Latin, Persian qaf (Arabic "1101", Persian "111000") was
\* encoded with the Arabic pattern "--.-" and came back as "Q", while the
\* Persian pattern is the one ':' holds.
C9_Witness ==
    /\ op = "decode"
    /\ options = DefaultOptions
    /\ source = << <<1602>> >>
    /\ input = <<45, 45, 46, 45>>
    /\ output = <<81>>

----------------------------------------------------------------------------
(* Glyphs, unknown chars, whitespace.                                      *)

\* o2 is o1 with other dash, dot, word-space or separator glyphs.
DifferOnlyInGlyphs(o1, o2) ==
    /\ o1 # o2
    /\ o1.priority = o2.priority
    /\ o1.invalid_char_callback = o2.invalid_char_callback

\* The letter-for-letter image of s under o1's glyphs -> o2's glyphs.
Substitute(o1, o2, s) ==
    [i \in 1 .. Len(s) |->
        IF s[i] = o1.dash THEN o2.dash
        ELSE IF s[i] = o1.dot THEN o2.dot
        ELSE IF s[i] = o1.space THEN o2.space
        ELSE IF s[i] = o1.separator THEN o2.separator
        ELSE s[i]]

NoOuterWhitespace(s) ==
    s # <<>> => (~is_whitespace(Head(s)) /\ ~is_whitespace(s[Len(s)]))

\* The text can be presented under o1 and under o2 alike: no unresolved
\* char's substitute is a glyph of o1, no char of the text or of its
\* uppercase is a non-whitespace separator of o1 or o2, and the text begins
\* or ends with whitespace only if the two separators are both whitespace
\* or both not.
Presentable(o1, o2, text) ==
    /\ LET processed == processed_text_of(o1, text)
       IN  \A i \in 1 .. Len(processed) :
              ~IsKey(processed[i]) =>
                  call_invalid_char_callback(o1.invalid_char_callback,
                                             processed[i])
                      \notin {o1.dash, o1.dot, o1.space, o1.separator}
    /\ \A sep \in {o1.separator, o2.separator} :
          ~is_whitespace(sep) =>
              /\ \A i \in 1 .. Len(text) : text[i] # sep
              /\ LET upper == to_uppercase(text)
                 IN  \A i \in 1 .. Len(upper) : upper[i] # sep
    /\ \/ is_whitespace(o1.separator) = is_whitespace(o2.separator)
       \/ NoOuterWhitespace(text)

C7_UnknownCharEmittedLiterally ==
    (op = "encode" /\ WellFormed(options)) =>
        LET text == processed_text_of(options, input)
            units == split(output, options.separator)
        IN  text # <<>> =>
               /\ Len(units) = Len(text)
               /\ \A i \in 1 .. Len(text) :
                     ~IsKey(text[i]) =>
                         units[i] = <<call_invalid_char_callback(
                                         options.invalid_char_callback, text[i])>>

\* The whitespace runs of s are inside it: s neither begins nor ends with
\* whitespace.
InteriorWhitespace(s) ==
    s # <<>> => (~is_whitespace(Head(s)) /\ ~is_whitespace(s[Len(s)]))

\* s with every maximal whitespace run cut down to its first char.
RECURSIVE CollapseRuns(_)
CollapseRuns(s) ==
    IF Len(s) < 2 THEN s
    ELSE IF is_whitespace(s[1]) /\ is_whitespace(s[2])
         THEN CollapseRuns(<<s[1]>> \o SubSeq(s, 3, Len(s)))
         ELSE <<s[1]>> \o CollapseRuns(Tail(s))

(* C10, as claimed.  Every maximal whitespace run of the input becomes one *)
(* separator before resolution, so an input encodes as the input with each *)
(* interior whitespace run cut down to one whitespace char.                *)
C10_WhitespaceRunsCollapse ==
    (op = "encode" /\ InteriorWhitespace(input)) =>
        output = encode(Self, CollapseRuns(input))

----------------------------------------------------------------------------
(* Trimming, joining, rendering, word boundaries.                          *)

(* C11, as claimed.  For every Options, with a whitespace separator or     *)
(* not, the separators that leading and trailing whitespace of the input   *)
(* turns into are removed before resolution: the output is that of the     *)
(* input without its leading and trailing whitespace, and so has no        *)
(* word-space unit at either end that such whitespace caused.              *)
C11_EncodeTrimsSeparators ==
    op = "encode" => output = encode(Self, trim(input))

\* The glyphs are distinct from the separator.
GlyphsDistinctFromSeparator(o) ==
    o.separator \notin {o.dash, o.dot, o.space}

\* The unit of one char of the normalized text: the rendered pattern of the
\* first table that has it as a key, or the callback's substitute.
UnitOf(self, character) ==
    LET encoded == find_encoded(self.characters, DOMAIN self.characters,
                                character)
    IN  IF encoded # <<>>
        THEN mapped_value(self.options, encoded[1])
        ELSE <<call_invalid_char_callback(
                  self.options.invalid_char_callback, character)>>

\* u1 sep u2 sep ... sep un.
RECURSIVE Join(_, _)
Join(units, sep) ==
    IF units = <<>> THEN <<>>
    ELSE IF Len(units) = 1 THEN units[1]
    ELSE units[1] \o <<sep>> \o Join(Tail(units), sep)

(* C12, as claimed.  For every Options whose glyphs are distinct from the  *)
(* separator and every input whose normalized text has n >= 1 chars, the   *)
(* output is exactly u1 sep u2 sep ... sep un, ui being the rendered       *)
(* pattern or the callback's substitute of the i-th char: n units, the     *)
(* last one not followed by a separator.                                   *)
C12_EncodeJoinsUnits ==
    (op = "encode" /\ GlyphsDistinctFromSeparator(options)) =>
        LET text == processed_text_of(options, input)
        IN  text # <<>> =>
               output = Join([i \in 1 .. Len(text) |-> UnitOf(Self, text[i])],
                             options.separator)

\* The positional substitution of a canonical pattern: the dot glyph where
\* the pattern has '0', the dash glyph where it has '1'.
Positional(o, pattern) ==
    [i \in 1 .. Len(pattern) |->
        IF pattern[i] = 48 THEN o.dot
        ELSE IF pattern[i] = 49 THEN o.dash
        ELSE pattern[i]]

\* The canonical patterns of the instance's tables (strings of '0' and '1').
CanonicalPatterns ==
    {p \in UNION {{characters[set][key] : key \in DOMAIN characters[set]} :
                     set \in DOMAIN characters} :
        \A i \in 1 .. Len(p) : p[i] \in {48, 49}}

(* C13, as claimed.  For every Options with distinct dot and dash glyphs,  *)
(* a canonical pattern is rendered position by position, '0' as the dot    *)
(* glyph and '1' as the dash glyph: the unit encode emits for a char that  *)
(* is a key is the positional substitution of its pattern, and the keys of *)
(* the reverse index that decode uses are the positional substitutions of  *)
(* the tables' patterns.                                                   *)
C13_RenderingPositional ==
    options.dot # options.dash =>
        /\ op = "encode" =>
              LET text == processed_text_of(options, input)
                  units == split(output, options.separator)
              IN  \A i \in 1 .. Len(text) :
                     LET encoded == find_encoded(characters, DOMAIN characters,
                                                 text[i])
                     IN  (encoded # <<>> /\ encoded[1] \in CanonicalPatterns) =>
                             /\ i <= Len(units)
                             /\ units[i] = Positional(options, encoded[1])
        /\ op = "decode" =>
              \A p \in CanonicalPatterns :
                  Positional(options, p) \in DOMAIN swapped_characters(options)

\* "- .... . / --.- ..- .. -.-. -.- / -... .-. --- .-- -. / ..-. --- -..-".
TheQuickBrownFoxMorse ==
    <<45, 32, 46, 46, 46, 46, 32, 46, 32, 47, 32, 45, 45, 46, 45, 32, 46,
    46, 45, 32, 46, 46, 32, 45, 46, 45, 46, 32, 45, 46, 45, 32, 47, 32,
    45, 46, 46, 46, 32, 46, 45, 46, 32, 45, 45, 45, 32, 46, 45, 45, 32,
    45, 46, 32, 47, 32, 46, 46, 45, 46, 32, 45, 45, 45, 32, 45, 46, 46,
    45>>

(* C14.  For any priority, the Latin table of the instance is the base     *)
(* Latin table plus one entry separator -> word-space glyph, and every     *)
(* whitespace char left in the normalized text is encoded as a unit that   *)
(* is the word-space glyph alone; under the default Options "the quick     *)
(* brown fox" encodes to                                                   *)
(* "- .... . / --.- ..- .. -.-. -.- / -... .-. --- .-- -. / ..-. --- -..-". *)
C14_WordBoundaries ==
    /\ Latin \in DOMAIN characters
    /\ DOMAIN characters[Latin] =
           DOMAIN base_characters[Latin] \cup {options.separator}
    /\ characters[Latin][options.separator] = <<options.space>>
    /\ (op = "encode" /\ GlyphsDistinctFromSeparator(options)) =>
           LET text == processed_text_of(options, input)
               units == split(output, options.separator)
           IN  \A i \in 1 .. Len(text) :
                  is_whitespace(text[i]) =>
                      /\ i <= Len(units)
                      /\ units[i] = <<options.space>>
    /\ (op = "encode" /\ options = DefaultOptions
                      /\ input = TheQuickBrownFox) =>
           output = TheQuickBrownFoxMorse

\* With priority Greek, "the quick brown fox" was encoded with a word-space
\* unit at each of its three spaces.
C14_Witness ==
    /\ op = "encode"
    /\ options = [DefaultOptions EXCEPT !.priority = Greek]
    /\ input = TheQuickBrownFox
    /\ output = TheQuickBrownFoxMorse

----------------------------------------------------------------------------
(* The default tables, the builder.                                        *)

\* The rendering of a canonical pattern in the default glyphs: '.' for '0',
\* '-' for '1'.
DefaultRendering(pattern) ==
    [i \in 1 .. Len(pattern) |-> IF pattern[i] = 48 THEN 46 ELSE 45]

\* The text is one char, a key of the base Latin, Numbers or Punctuation
\* table.
IsDefaultTableChar(text) ==
    /\ Len(text) = 1
    /\ \E set \in {Latin, Numbers, Punctuation} :
          text[1] \in DOMAIN base_characters[set]

(* C16.  Under the default Options, for every char c of the base Latin,    *)
(* Numbers and Punctuation tables, encode(c) is c's table pattern in the   *)
(* default glyphs and decode(encode(c)) is c; decode of                    *)
(* "----- .---- ..--- ...-- ....- ..... -.... --... ---.. ----." is        *)
(* "0123456789".                                                           *)
C16_DefaultTablesRoundTrip ==
    options = DefaultOptions =>
        /\ (op = "encode" /\ IsDefaultTableChar(input)) =>
               \A set \in {Latin, Numbers, Punctuation} :
                   input[1] \in DOMAIN base_characters[set] =>
                       output = DefaultRendering(base_characters[set][input[1]])
        /\ (op = "decode" /\ source # <<>> /\ IsDefaultTableChar(source[1])) =>
               output = source[1]
        /\ (op = "decode" /\ input = DigitsMorse) =>
               output = <<48, 49, 50, 51, 52, 53, 54, 55, 56, 57>>

\* "?" was encoded to "..--.." and decoded back to "?".
C16_Witness ==
    /\ op = "decode"
    /\ options = DefaultOptions
    /\ source = << <<63>> >>
    /\ input = <<46, 46, 45, 45, 46, 46>>
    /\ output = <<63>>

(* C17.  For every Options, the instance's tables hold every base table    *)
(* under its own tag (Latin with the word-space entry added); if the       *)
(* priority tag has a base table, they also hold a copy of it under        *)
(* Undefined, the tag iterated before every script's; if it has none       *)
(* (priority Undefined), they hold nothing under Undefined.                *)
C17_BuilderOverlay ==
    /\ \A set \in DOMAIN base_characters :
          /\ set \in DOMAIN characters
          /\ set # Latin => characters[set] = base_characters[set]
          /\ set = Latin =>
                \A key \in DOMAIN base_characters[set] \ {options.separator} :
                    /\ key \in DOMAIN characters[set]
                    /\ characters[set][key] = base_characters[set][key]
    /\ DOMAIN characters \subseteq DOMAIN base_characters \cup {Undefined}
    /\ options.priority \in DOMAIN base_characters =>
          /\ Undefined \in DOMAIN characters
          /\ characters[Undefined] = base_characters[options.priority]
          /\ Min(DOMAIN characters) = Undefined
    /\ options.priority \notin DOMAIN base_characters =>
          Undefined \notin DOMAIN characters

\* An instance was built with priority Persian: the Persian table is under
\* Undefined and under its own tag.
C17_Witness ==
    /\ op = "new"
    /\ options.priority = Persian
    /\ Undefined \in DOMAIN characters
    /\ characters[Undefined] = persian_chars
    /\ characters[Persian] = persian_chars

----------------------------------------------------------------------------
(* Uppercasing, stability, immutability.                                   *)

\* s with each char replaced by the chars of its uppercase.
RECURSIVE Expand(_)
Expand(s) ==
    IF s = <<>> THEN <<>>
    ELSE char_to_uppercase(Head(s)) \o Expand(Tail(s))

(* C18.  The text is upper-cased before the table lookup, and a char whose *)
(* uppercase is several chars gives one unit per resulting char: the units *)
(* of the output are those of the chars of the upper-cased text, sharp s   *)
(* is encoded under the default Options as "... ...", the two units of     *)
(* S S, and a key that is not its own uppercase is not encoded with its    *)
(* own pattern.                                                            *)
C18_UppercaseBeforeLookup ==
    (op = "encode" /\ GlyphsDistinctFromSeparator(options)) =>
        LET replaced == trim(replace_whitespace(input, options.separator))
            expanded == Expand(replaced)
            units == split(output, options.separator)
        IN  /\ expanded # <<>> => Len(units) = Len(expanded)
            /\ \A i \in 1 .. Len(expanded) :
                   IsKey(expanded[i]) =>
                       /\ i <= Len(units)
                       /\ units[i] = UnitOf(Self, expanded[i])
            /\ (options = DefaultOptions /\ input = <<223>>) =>
                   output = <<46, 46, 46, 32, 46, 46, 46>>
            /\ (/\ Len(input) = 1
                /\ IsKey(input[1])
                /\ char_to_uppercase(input[1]) # input) =>
                   output # UnitOf(Self, input[1])

\* With priority Greek, sharp s was encoded as "... ...".
C18_Witness ==
    /\ op = "encode"
    /\ options = [DefaultOptions EXCEPT !.priority = Greek]
    /\ input = <<223>>
    /\ output = <<46, 46, 46, 32, 46, 46, 46>>

\* The last call encoded what decode returned for the output of an encode:
\* source[1] is that output, source[2] the text it was the encoding of.
ReEncoded == op = "encode" /\ Len(source) = 2

(* C19.  Under the default Options, for every text whose normalized chars  *)
(* are all keys of some table, encode(decode(encode(text))) is             *)
(* encode(text).                                                           *)
C19_EncodeStable ==
    (/\ ReEncoded
     /\ options = DefaultOptions
     /\ LET text == processed_text_of(options, source[2])
        IN  \A i \in 1 .. Len(text) : IsKey(text[i]))
        => output = source[1]

\* Capital omega was encoded to ".--", decoded to "W" and encoded to ".--"
\* again.
C19_Witness ==
    /\ ReEncoded
    /\ options = DefaultOptions
    /\ source = << <<46, 45, 45>>, <<937>> >>
    /\ input = <<87>>
    /\ output = <<46, 45, 45>>

(* C20.  An instance is not changed by the calls made on it: an encode or  *)
(* decode step leaves its options and its cached tables as they were, and  *)
(* in every state the cached tables that encode reads are the tables       *)
(* get_characters(options) that decode rebuilds.                           *)
C20_Immutable ==
    /\ [](characters = get_characters(options))
    /\ [][op' # "new" => UNCHANGED <<options, characters>>]_vars

\* After an encode and a decode on an instance with the separator '|', its
\* cached tables are still those of its Options.
C20_Witness ==
    /\ op = "decode"
    /\ source # <<>>
    /\ options = [DefaultOptions EXCEPT !.separator = 124]
    /\ characters = get_characters(options)
    /\ characters[Latin][124] = <<47>>

====
